---- MODULE Spec2Model ----
(***************************************************************************)
(* PmseEngine: the pool registry of the persistent-memory storage engine.  *)
(* Persistent state (survives a crash): the ident-list pool (catalog and   *)
(* safe-shutdown marker), the per-ident pool files, and each collection    *)
(* pool's index-catalog list.  Volatile state: the _poolHandler map, the   *)
(* _needCheck flag and the registry mutex.                                 *)
(***************************************************************************)
EXTENDS Integers, Sequences, FiniteSets, TLC

\* ---- bounds of the model ------------------------------------------------
MaxCat == 2        \* entries the ident list may hold
MaxIndex == 2      \* index-catalog nodes in all pools together
MaxUnreg == 1      \* handles opened but not stored in the map, per instance
MaxChanges == 2    \* change objects one unit of work may register

Idents == {"a", "b"}
Namespaces == {"n1", "n2"}
NoIdent == "none"          \* findFirstValue found nothing
NoNs == ""                 \* namespace of an index placeholder entry
Threads == {1, 2}
\* a pool is a file or the target of a stale handle: at most two per ident
PoolNums == 1..(2 * Cardinality(Idents))

VARIABLES
    \* persistent
    listExists,     \* the ident-list pool file exists
    identList,      \* _identList: sequence of [key, value]
    safeShutdown,   \* the safe-shutdown marker held by the ident list
    file,           \* file[i]: pool stored in the file named i, 0 = no file
    index,          \* index[p]: index-catalog list of pool p, head first
                    \* (nodes [identName, tree])
    \* volatile
    engine,         \* "down" | "up"
    needCheck,      \* _needCheck
    poolHandler,    \* _poolHandler: ident -> pool its handle maps, 0 = absent
    unregistered,   \* open handles that are not in _poolHandler
    pc,             \* position inside dropIdent: "idle" | "close" | "remove"
    dropArg,        \* ident of the dropIdent in progress
    mutex,          \* _pmutex: 0 = free, else the owning thread
    tpc,            \* tpc[t]: "idle" | "body" (inside an engine call)
    top,            \* top[t]: the call thread t is in
    \* history
    cleanMarked,    \* this instance called cleanShutdown
    priorSafe,      \* marker value the constructor read
    prevExit,       \* how the previous instance ended
    prevMarked,     \* the previous instance had called cleanShutdown
    last,           \* the last completed call
    \* the transaction of a createSortedDataInterface in progress
    tx,
    \* change objects of a unit of work
    kvmap,          \* the mapper's backing map: location -> payload, 0 = none
    changes,        \* the change objects registered, oldest first
    uow             \* the unit of work: its phase "open" | "committing" |
                    \* "aborting" and the change object its loop is at

pvars == <<listExists, identList, safeShutdown, file, index>>
vvars == <<engine, needCheck, poolHandler, unregistered, pc, dropArg>>
tvars == <<mutex, tpc, top>>
hvars == <<cleanMarked, priorSafe, prevExit, prevMarked, last>>
xvars == <<tx, kvmap, changes, uow>>
vars == <<pvars, vvars, tvars, hvars, xvars>>

\* ---- PmseList (ident list) ----------------------------------------------
Keys(list) == {list[k].key : k \in 1..Len(list)}

HasKey(list, key) == key \in Keys(list)

insertKV(list, key, value) == Append(list, [key |-> key, value |-> value])

deleteKV(list, key) == SelectSeq(list, LAMBDA e : e.key # key)

update(list, key, value) ==
    IF HasKey(list, key)
    THEN [k \in 1..Len(list) |->
            IF list[k].key = key THEN [key |-> key, value |-> value] ELSE list[k]]
    ELSE Append(list, [key |-> key, value |-> value])

\* key of the first entry whose value is the given namespace
findFirstValue(list, value) ==
    IF \E k \in 1..Len(list) : list[k].value = value
    THEN LET k == CHOOSE k \in 1..Len(list) :
                      /\ list[k].value = value
                      /\ \A j \in 1..(k - 1) : list[j].value # value
         IN list[k].key
    ELSE NoIdent

isAfterSafeShutdown(marker) == marker

NoCall == [op |-> "none", ident |-> NoIdent, ns |-> NoNs, ok |-> TRUE,
           res |-> 0, fresh |-> FALSE]

Call(op, ident, ns, ok, res, fresh) ==
    [op |-> op, ident |-> ident, ns |-> ns, ok |-> ok, res |-> res,
     fresh |-> fresh]

\* no transaction in progress
NoTx == [stage |-> "none"]

\* record locations and payloads of the mapper's backing map
Locs == {1, 2}
Payloads == {1, 2}

\* a completed call with the way it ended
CallOut(op, ident, ns, res, out) ==
    [op |-> op, ident |-> ident, ns |-> ns, ok |-> out = "ok", res |-> res,
     fresh |-> FALSE, out |-> out]

\* a unit of work that is neither committing nor aborting
OpenUow == [phase |-> "open", at |-> 0]

\* ---- pools ----------------------------------------------------------------
InUse(files, map) == {files[i] : i \in Idents} \cup {map[i] : i \in Idents}

\* the pool a newly created file holds
NewPool == CHOOSE p \in PoolNums :
               /\ p \notin InUse(file, poolHandler)
               /\ \A q \in PoolNums : q < p => q \in InUse(file, poolHandler)

\* the storage of a pool that is neither a file nor mapped is gone
Sweep(idx, files, map) ==
    [p \in PoolNums |-> IF p \in InUse(files, map) THEN idx[p] ELSE <<>>]

RECURSIVE SumLen(_, _)
SumLen(idx, pools) ==
    IF pools = {} THEN 0
    ELSE LET p == CHOOSE q \in pools : TRUE
         IN Len(idx[p]) + SumLen(idx, pools \ {p})

\* index-catalog nodes in existence
Nodes == SumLen(index, PoolNums)

\* ---- construction ---------------------------------------------------------
Init ==
    /\ listExists = FALSE
    /\ identList = <<>>
    /\ safeShutdown \in BOOLEAN
    /\ file = [i \in Idents |-> 0]
    /\ index = [p \in PoolNums |-> <<>>]
    /\ engine = "down"
    /\ needCheck = FALSE
    /\ poolHandler = [i \in Idents |-> 0]
    /\ unregistered = 0
    /\ pc = "idle"
    /\ dropArg = NoIdent
    /\ mutex = 0
    /\ tpc = [t \in Threads |-> "idle"]
    /\ top = [t \in Threads |-> "none"]
    /\ cleanMarked = FALSE
    /\ priorSafe = FALSE
    /\ prevExit = "fresh"
    /\ prevMarked = FALSE
    /\ last = NoCall
    /\ tx = NoTx
    /\ kvmap = [l \in Locs |-> 0]
    /\ changes = <<>>
    /\ uow = OpenUow

\* a constructor that makes a new PmseList on every start
ListRecreated(exists, list) == <<>>

\* lines 61-77: a created pool gets a new, empty PmseList (line 74); an
\* opened pool keeps the list its root points to
ListAtStart(exists, list) == IF exists THEN list ELSE <<>>

\* the test of line 82 without its negation
NeedCheckInverted(marker) == isAfterSafeShutdown(marker)

\* lines 82-86: the flag latched from the marker the constructor read
NeedCheckFrom(marker) == ~isAfterSafeShutdown(marker)

\* line 87: PmseList::resetState
resetState(marker) == FALSE

\* the constructor without the resetState call of line 87
ConstructorNoReset ==
    /\ engine = "down"
    /\ listExists' = TRUE
    /\ needCheck' = NeedCheckFrom(safeShutdown)
    /\ priorSafe' = safeShutdown
    /\ safeShutdown' = safeShutdown
    /\ engine' = "up"
    /\ poolHandler' = [i \in Idents |-> 0]
    /\ unregistered' = 0
    /\ cleanMarked' = FALSE
    /\ identList' = ListAtStart(listExists, identList)
    /\ UNCHANGED <<file, index, pc, dropArg, prevExit, prevMarked>>

\* PmseEngine::PmseEngine: create or open the ident-list pool, latch the
\* marker into _needCheck, reset the marker.
Constructor ==
    /\ engine = "down"
    /\ listExists' = TRUE
    /\ needCheck' = NeedCheckFrom(safeShutdown)
    /\ priorSafe' = safeShutdown
    /\ safeShutdown' = resetState(safeShutdown)
    /\ engine' = "up"
    /\ poolHandler' = [i \in Idents |-> 0]
    /\ unregistered' = 0
    /\ cleanMarked' = FALSE
    /\ identList' = ListAtStart(listExists, identList)
    /\ UNCHANGED <<file, index, pc, dropArg, prevExit, prevMarked>>

\* ---- createRecordStore ----------------------------------------------------
\* createRecordStore without the insert of lines 114-115
MapInsertOmitted(map, key, p) == map

\* std::map::insert: an existing key keeps its value
MapInsert(map, key, p) == IF map[key] = 0 THEN [map EXCEPT ![key] = p] ELSE map

\* out: "poolfail" pool create/open throws (rethrown);  "kvfail" insertKV
\* throws;  "rsfail" the PmseRecordStore constructor throws;  "ok".
CreateOuts == {"poolfail", "kvfail", "rsfail", "ok"}

createRecordStore(ns, ident, out) ==
    LET p == IF file[ident] = 0 THEN NewPool ELSE file[ident] IN
    /\ engine = "up"
    /\ out \in CreateOuts
    /\ IF out = "poolfail"
       THEN UNCHANGED <<pvars, vvars>>
       ELSE /\ poolHandler[ident] # 0 => unregistered < MaxUnreg
            /\ file' = [file EXCEPT ![ident] = p]
            /\ poolHandler' = MapInsert(poolHandler, ident, p)
            /\ unregistered' = IF poolHandler[ident] # 0
                               THEN unregistered + 1 ELSE unregistered
            /\ IF out = "kvfail"
               THEN identList' = identList
               ELSE /\ Len(identList) < MaxCat
                    /\ identList' = insertKV(identList, ident, ns)
            /\ UNCHANGED <<listExists, safeShutdown, index, engine, needCheck,
                           pc, dropArg>>
    /\ UNCHANGED <<cleanMarked, priorSafe, prevExit, prevMarked>>

\* ---- getRecordStore -------------------------------------------------------
\* out: "openfail" pool open throws;  "countfail" storeCounters throws;  "ok".
GetOuts == {"openfail", "countfail", "ok"}

\* a lookup that never finds the handle
HandleNeverFound(map, ident) == FALSE

\* lines 134-135: _poolHandler.find(ident) != _poolHandler.end()
HandleFound(map, ident) == map[ident] # 0

\* line 141 assigns through operator[]: a handle already stored under the
\* ident would be replaced and left open outside the map
getRecordStore(ns, ident, out) ==
    /\ engine = "up"
    /\ out \in GetOuts
    /\ IF HandleFound(poolHandler, ident)
       THEN /\ out # "openfail"
            /\ UNCHANGED <<poolHandler, unregistered>>
       ELSE /\ out = "openfail" \/ file[ident] # 0
            /\ IF out = "openfail"
               THEN UNCHANGED <<poolHandler, unregistered>>
               ELSE /\ poolHandler[ident] # 0 => unregistered < MaxUnreg
                    /\ poolHandler' = [poolHandler EXCEPT ![ident] = file[ident]]
                    /\ unregistered' = IF poolHandler[ident] # 0
                                       THEN unregistered + 1 ELSE unregistered
    /\ IF out = "ok"
       THEN /\ HasKey(identList, ident) \/ Len(identList) < MaxCat
            /\ identList' = update(identList, ident, ns)
       ELSE UNCHANGED identList
    /\ UNCHANGED <<listExists, safeShutdown, file, index, engine, needCheck,
                   pc, dropArg, cleanMarked, priorSafe, prevExit, prevMarked>>

\* ---- sorted data interfaces -----------------------------------------------
\* lines 159-160 and 184-185: the collection ident owning namespace ns has a
\* handle in the map (else _poolHandler.at throws)
Resolves(ns) ==
    /\ findFirstValue(identList, ns) \in Idents
    /\ poolHandler[findFirstValue(identList, ns)] # 0

\* the pool that handle maps
RsPool(ns) == poolHandler[findFirstValue(identList, ns)]

\* lines 163-171: the new node becomes the head of the list
LinkIndex(list, node) == <<node>> \o list

\* out: "txfail" findFirstValue / _poolHandler.at / the transaction throws;
\* "kvfail" insertKV throws after the transaction committed;  "ok".
SdiOuts == {"txfail", "kvfail", "ok"}

createSortedDataInterface(ident, ns, out) ==
    /\ engine = "up"
    /\ out \in SdiOuts
    /\ IF ~Resolves(ns) \/ out = "txfail"
       THEN /\ out = "txfail"
            /\ UNCHANGED <<index, identList>>
       ELSE LET p == RsPool(ns)
                node == [identName |-> ident, tree |-> Len(index[p]) + 1]
            IN /\ Nodes < MaxIndex
               /\ index' = [index EXCEPT ![p] = LinkIndex(index[p], node)]
               /\ IF out = "kvfail"
                  THEN identList' = identList
                  ELSE /\ Len(identList) < MaxCat
                       /\ identList' = insertKV(identList, ident, NoNs)
    /\ UNCHANGED <<listExists, safeShutdown, file, vvars, cleanMarked,
                   priorSafe, prevExit, prevMarked>>

\* the scan leaving the loop at the first matching node
RECURSIVE ScanIndexFirst(_, _, _)
ScanIndexFirst(list, name, indexFound) ==
    IF list = <<>> THEN indexFound
    ELSE IF Head(list).identName = name THEN Head(list).tree
         ELSE ScanIndexFirst(Tail(list), name, indexFound)

\* lines 187-192: indexFound is overwritten by every matching node from the
\* head on; 0 is nullptr
RECURSIVE ScanIndex(_, _, _)
ScanIndex(list, name, indexFound) ==
    IF list = <<>> THEN indexFound
    ELSE ScanIndex(Tail(list), name,
                   IF Head(list).identName = name THEN Head(list).tree
                   ELSE indexFound)

\* the tree getSortedDataInterface binds to: 0 when _poolHandler.at throws
\* or no node matches (indexFound stays nullptr)
IndexFound(ident, ns) ==
    IF Resolves(ns) THEN ScanIndex(index[RsPool(ns)], ident, 0) ELSE 0

\* the ways a lookup can end: "out_of_range" _poolHandler.at throws (line
\* 185); with no matching node line 193 reads through a null pointer, which
\* ends the process ("segv") or binds the interface to whatever the read
\* yields ("garbage"); "ok" the tree of the node found is bound
SdiLookupOuts(ident, ns) ==
    IF ~Resolves(ns) THEN {"out_of_range"}
    ELSE IF IndexFound(ident, ns) = 0 THEN {"segv", "garbage"}
    ELSE {"ok"}

\* ---- dropIdent ------------------------------------------------------------
\* dropIdent starting with the remove_all of line 208
DropRemoveFirst(ident) ==
    /\ engine = "up"
    /\ pc = "idle"
    /\ file' = [file EXCEPT ![ident] = 0]
    /\ index' = Sweep(index, file', poolHandler)
    /\ pc' = "close"
    /\ dropArg' = ident
    /\ UNCHANGED <<listExists, identList, safeShutdown, engine, needCheck,
                   poolHandler, unregistered, cleanMarked, priorSafe,
                   prevExit, prevMarked>>

\* dropIdent without the deleteKV of line 199
DropKeepsEntry(ident) ==
    /\ engine = "up"
    /\ pc = "idle"
    /\ pc' = "close"
    /\ dropArg' = ident
    /\ UNCHANGED <<pvars, engine, needCheck, poolHandler, unregistered,
                   cleanMarked, priorSafe, prevExit, prevMarked>>

\* line 199: the catalog entry goes first
DropDeleteKV(ident) ==
    /\ engine = "up"
    /\ pc = "idle"
    /\ identList' = deleteKV(identList, ident)
    /\ pc' = "close"
    /\ dropArg' = ident
    /\ UNCHANGED <<listExists, safeShutdown, file, index, engine, needCheck,
                   poolHandler, unregistered, cleanMarked, priorSafe,
                   prevExit, prevMarked>>

\* lines 200-207: close and erase the handle; a throwing close is logged and
\* the erase is skipped
DropClose(closeOk) ==
    /\ engine = "up"
    /\ pc = "close"
    /\ IF poolHandler[dropArg] # 0 /\ closeOk
       THEN poolHandler' = [poolHandler EXCEPT ![dropArg] = 0]
       ELSE closeOk = (poolHandler[dropArg] = 0) /\ UNCHANGED poolHandler
    /\ index' = Sweep(index, file, poolHandler')
    /\ pc' = "remove"
    /\ UNCHANGED <<listExists, identList, safeShutdown, file, engine,
                   needCheck, unregistered, dropArg, cleanMarked, priorSafe,
                   prevExit, prevMarked>>

\* a remove_all of the storage directory instead of the ident's file
DropRemoveDirectory ==
    /\ engine = "up"
    /\ pc = "remove"
    /\ file' = [i \in Idents |-> 0]
    /\ index' = Sweep(index, file', poolHandler)
    /\ pc' = "idle"
    /\ dropArg' = NoIdent
    /\ UNCHANGED <<listExists, identList, safeShutdown, engine, needCheck,
                   poolHandler, unregistered, cleanMarked, priorSafe,
                   prevExit, prevMarked>>

\* line 208: remove_all of the backing file; line 209: returns OK
DropRemove ==
    /\ engine = "up"
    /\ pc = "remove"
    /\ file' = [file EXCEPT ![dropArg] = 0]
    /\ index' = Sweep(index, file', poolHandler)
    /\ pc' = "idle"
    /\ dropArg' = NoIdent
    /\ UNCHANGED <<listExists, identList, safeShutdown, engine, needCheck,
                   poolHandler, unregistered, cleanMarked, priorSafe,
                   prevExit, prevMarked>>

\* ---- end of an instance ---------------------------------------------------
\* PmseList::safeShutdown, reached through the engine's cleanShutdown
cleanShutdown ==
    /\ engine = "up"
    /\ safeShutdown' = TRUE
    /\ cleanMarked' = TRUE
    /\ UNCHANGED <<listExists, identList, file, index, vvars, priorSafe,
                   prevExit, prevMarked>>

\* a destructor that also sets the safe-shutdown marker
DestructorMarksSafe ==
    /\ engine = "up"
    /\ poolHandler' = [i \in Idents |-> 0]
    /\ index' = Sweep(index, file, poolHandler')
    /\ engine' = "down"
    /\ needCheck' = FALSE
    /\ safeShutdown' = TRUE
    /\ prevExit' = "teardown"
    /\ prevMarked' = cleanMarked
    /\ cleanMarked' = FALSE
    /\ UNCHANGED <<listExists, identList, file, unregistered, pc, dropArg,
                   priorSafe>>

\* PmseEngine::~PmseEngine: every handle of the map is closed, then the
\* ident-list pool; handles outside the map stay open
Destructor ==
    /\ engine = "up"
    /\ poolHandler' = [i \in Idents |-> 0]
    /\ index' = Sweep(index, file, poolHandler')
    /\ engine' = "down"
    /\ needCheck' = FALSE
    /\ prevExit' = "teardown"
    /\ prevMarked' = cleanMarked
    /\ cleanMarked' = FALSE
    /\ UNCHANGED <<listExists, identList, safeShutdown, file, unregistered,
                   pc, dropArg, priorSafe>>

\* a transaction that ends without its commit leaves no write behind
RecoverNothing(idx, t) == idx

\* line 162, transaction::exec_tx: when the transaction aborts, or the
\* process dies before its commit, the undo log puts back what the
\* transaction overwrote
Recover(idx, t) ==
    IF t.stage \in {"begin", "node", "next", "linked"}
    THEN [idx EXCEPT ![t.pool] = t.before]
    ELSE idx

\* the process dies: volatile state is lost, persistent state stays
Crash ==
    /\ engine = "up"
    /\ engine' = "down"
    /\ needCheck' = FALSE
    /\ poolHandler' = [i \in Idents |-> 0]
    /\ index' = Sweep(Recover(index, tx), file, poolHandler')
    /\ unregistered' = 0
    /\ pc' = "idle"
    /\ dropArg' = NoIdent
    /\ prevExit' = "crash"
    /\ prevMarked' = cleanMarked
    /\ cleanMarked' = FALSE
    /\ UNCHANGED <<listExists, identList, safeShutdown, file, priorSafe>>

\* PmseEngine::getSortedDataInterface
getSortedDataInterface(ident, ns, out) ==
    /\ engine = "up"
    /\ out \in SdiLookupOuts(ident, ns)
    /\ IF out = "segv"
       THEN Crash
       ELSE UNCHANGED <<pvars, vvars, cleanMarked, priorSafe, prevExit,
                        prevMarked>>

\* ---- one caller at a time -------------------------------------------------

\* registered neither in the map nor in the catalog
Fresh(ident) == poolHandler[ident] = 0 /\ ~HasKey(identList, ident)

\* what the caller of createRecordStore sees: on success the pool the call
\* created or opened, on failure whether the ident was unregistered before
CreateResult(ns, ident, out) ==
    IF out = "ok"
    THEN Call("create", ident, ns, TRUE, file'[ident], FALSE)
    ELSE Call("create", ident, NoNs, FALSE, 0, Fresh(ident))

\* what the caller of getRecordStore sees: the pool the record store is on
GetResult(ident, out) ==
    IF out = "ok"
    THEN Call("get", ident, NoNs, TRUE, poolHandler'[ident], FALSE)
    ELSE Call("get", ident, NoNs, FALSE, 0, FALSE)

\* dropIdent returns OK; res is the handle left in the map
DropResult == Call("drop", dropArg, NoNs, TRUE, poolHandler[dropArg], FALSE)

Start == pc = "idle" /\ Constructor /\ last' = NoCall /\ UNCHANGED <<tvars, xvars>>

CreateRecordStoreCall ==
    \E ns \in Namespaces, ident \in Idents, out \in CreateOuts :
        /\ pc = "idle"
        /\ createRecordStore(ns, ident, out)
        /\ last' = CreateResult(ns, ident, out)
        /\ UNCHANGED <<tvars, xvars>>

GetRecordStoreCall ==
    \E ns \in Namespaces, ident \in Idents, out \in GetOuts :
        /\ pc = "idle"
        /\ getRecordStore(ns, ident, out)
        /\ last' = GetResult(ident, out)
        /\ UNCHANGED <<tvars, xvars>>

DropIdentBegin ==
    \E ident \in Idents : DropDeleteKV(ident) /\ UNCHANGED <<last, tvars, xvars>>

DropIdentClose ==
    \E closeOk \in BOOLEAN : DropClose(closeOk) /\ UNCHANGED <<last, tvars, xvars>>

DropIdentRemove == DropRemove /\ last' = DropResult /\ UNCHANGED <<tvars, xvars>>

CleanShutdownCall == pc = "idle" /\ cleanShutdown /\ UNCHANGED <<last, tvars, xvars>>

Teardown == pc = "idle" /\ Destructor /\ last' = NoCall /\ UNCHANGED <<tvars, xvars>>

CrashStep == Crash /\ last' = NoCall /\ UNCHANGED <<tvars, xvars>>

Next ==
    \/ Start
    \/ CreateRecordStoreCall
    \/ GetRecordStoreCall
    \/ DropIdentBegin
    \/ DropIdentClose
    \/ DropIdentRemove
    \/ CleanShutdownCall
    \/ Teardown
    \/ CrashStep

Spec == Init /\ [][Next]_vars

LookupOuts == {"out_of_range", "segv", "garbage", "ok"}

\* ---- index catalog: record stores and sorted data interfaces --------------
\* what the caller of getSortedDataInterface sees: the tree bound (line 193)
GetSdiResult(ident, ns, out) ==
    CallOut("getSDI", ident, ns,
            IF out = "ok" THEN IndexFound(ident, ns) ELSE 0, out)

IdxCreateRecordStore ==
    \E ns \in Namespaces, ident \in Idents, out \in CreateOuts :
        /\ pc = "idle"
        /\ createRecordStore(ns, ident, out)
        /\ last' = NoCall
        /\ UNCHANGED <<tvars, xvars>>

IdxGetRecordStore ==
    \E ns \in Namespaces, ident \in Idents, out \in GetOuts :
        /\ pc = "idle"
        /\ getRecordStore(ns, ident, out)
        /\ last' = NoCall
        /\ UNCHANGED <<tvars, xvars>>

CreateSortedDataInterfaceCall ==
    \E ns \in Namespaces, ident \in Idents, out \in SdiOuts :
        /\ pc = "idle"
        /\ createSortedDataInterface(ident, ns, out)
        /\ last' = NoCall
        /\ UNCHANGED <<tvars, xvars>>

GetSortedDataInterfaceCall ==
    \E ns \in Namespaces, ident \in Idents, out \in LookupOuts :
        /\ pc = "idle"
        /\ getSortedDataInterface(ident, ns, out)
        /\ last' = NoCall
        /\ UNCHANGED <<tvars, xvars>>

NextIdx ==
    \/ Start
    \/ IdxCreateRecordStore
    \/ IdxGetRecordStore
    \/ CreateSortedDataInterfaceCall
    \/ GetSortedDataInterfaceCall
    \/ DropIdentBegin
    \/ DropIdentClose
    \/ DropIdentRemove
    \/ CrashStep

\* a storage directory whose ident list starts with the marker unset
InitUnsafe == Init /\ ~safeShutdown

SpecIdx == InitUnsafe /\ [][NextIdx]_vars

\* ---- index scan: one instance, the result of every lookup recorded --------
GetSortedDataInterfaceResult ==
    \E ns \in Namespaces, ident \in Idents, out \in LookupOuts :
        /\ pc = "idle"
        /\ getSortedDataInterface(ident, ns, out)
        /\ last' = GetSdiResult(ident, ns, out)
        /\ UNCHANGED <<tvars, xvars>>

\* the one instance of this specification
ScanStart == prevExit = "fresh" /\ Start

NextScan ==
    \/ ScanStart
    \/ IdxCreateRecordStore
    \/ IdxGetRecordStore
    \/ CreateSortedDataInterfaceCall
    \/ GetSortedDataInterfaceResult
    \/ DropIdentBegin
    \/ DropIdentClose
    \/ DropIdentRemove

SpecScan == InitUnsafe /\ [][NextScan]_vars

\* ---- concurrent callers ---------------------------------------------------
Calls == {"create", "get", "createSDI", "getSDI", "drop"}

\* the calls that open with stdx::lock_guard<stdx::mutex> lock(_pmutex):
\* lines 99, 157 and 197; lines 127-152 and 181-194 take no lock
TakesLock(call) == call \in {"create", "createSDI", "drop"}

\* thread t enters a call, blocking on _pmutex where the call takes it
Enter(t, call) ==
    /\ engine = "up"
    /\ tpc[t] = "idle"
    /\ IF TakesLock(call) THEN mutex = 0 /\ mutex' = t ELSE mutex' = mutex
    /\ tpc' = [tpc EXCEPT ![t] = "body"]
    /\ top' = [top EXCEPT ![t] = call]
    /\ UNCHANGED <<pvars, vvars, hvars, xvars>>

\* thread t returns; the lock_guard releases _pmutex
Leave(t) ==
    /\ tpc' = [tpc EXCEPT ![t] = "idle"]
    /\ top' = [top EXCEPT ![t] = "none"]
    /\ mutex' = IF mutex = t THEN 0 ELSE mutex
    /\ UNCHANGED xvars

\* outcomes of a call under concurrency: it succeeds, or it throws before
\* it changed anything
ThreadOuts == {"ok", "poolfail", "openfail", "txfail"}

InBody(t, call) == tpc[t] = "body" /\ top[t] = call

ThreadEnter == \E t \in Threads, call \in Calls : Enter(t, call)

ThreadCreateRecordStore ==
    \E t \in Threads, ns \in Namespaces, ident \in Idents, out \in ThreadOuts :
        /\ InBody(t, "create")
        /\ createRecordStore(ns, ident, out)
        /\ Leave(t)
        /\ UNCHANGED last

ThreadGetRecordStore ==
    \E t \in Threads, ns \in Namespaces, ident \in Idents, out \in ThreadOuts :
        /\ InBody(t, "get")
        /\ getRecordStore(ns, ident, out)
        /\ Leave(t)
        /\ UNCHANGED last

ThreadCreateSortedDataInterface ==
    \E t \in Threads, ns \in Namespaces, ident \in Idents, out \in ThreadOuts :
        /\ InBody(t, "createSDI")
        /\ createSortedDataInterface(ident, ns, out)
        /\ Leave(t)
        /\ UNCHANGED last

ThreadGetSortedDataInterface ==
    \E t \in Threads, ns \in Namespaces, ident \in Idents,
       out \in LookupOuts \ {"segv"} :
        /\ InBody(t, "getSDI")
        /\ getSortedDataInterface(ident, ns, out)
        /\ Leave(t)
        /\ UNCHANGED last

ThreadDropBegin ==
    \E t \in Threads, ident \in Idents :
        /\ InBody(t, "drop")
        /\ DropDeleteKV(ident)
        /\ UNCHANGED <<tvars, last, xvars>>

ThreadDropClose ==
    \E t \in Threads, closeOk \in BOOLEAN :
        /\ InBody(t, "drop")
        /\ DropClose(closeOk)
        /\ UNCHANGED <<tvars, last, xvars>>

ThreadDropRemove ==
    \E t \in Threads :
        /\ InBody(t, "drop")
        /\ DropRemove
        /\ Leave(t)
        /\ UNCHANGED last

NextC ==
    \/ Start
    \/ ThreadEnter
    \/ ThreadCreateRecordStore
    \/ ThreadGetRecordStore
    \/ ThreadCreateSortedDataInterface
    \/ ThreadGetSortedDataInterface
    \/ ThreadDropBegin
    \/ ThreadDropClose
    \/ ThreadDropRemove

SpecC == InitUnsafe /\ [][NextC]_vars

\* ---- createSortedDataInterface, one persistent write at a time -----------
\* stages of the transaction before its commit
InTx == {"begin", "node", "next", "linked"}

\* lines 159-162: the owning pool is resolved and the transaction opens;
\* _poolHandler.at throws when the collection has no handle
TxBegin(ident, ns) ==
    /\ engine = "up"
    /\ pc = "idle"
    /\ tx = NoTx
    /\ IF Resolves(ns)
       THEN /\ Nodes < MaxIndex
            /\ tx' = [stage |-> "begin", pool |-> RsPool(ns), ident |-> ident,
                      ns |-> ns, before |-> index[RsPool(ns)],
                      node |-> [identName |-> "", tree |-> 0], next |-> <<>>]
            /\ UNCHANGED last
       ELSE /\ tx' = NoTx
            /\ last' = CallOut("createSDI", ident, ns, 0, "unresolved")
    /\ UNCHANGED <<pvars, vvars, tvars, cleanMarked, priorSafe, prevExit,
                   prevMarked, kvmap, changes, uow>>

\* lines 163-165: the node and its tree are allocated and the name copied;
\* a failed allocation aborts the transaction (caught at line 175)
TxAlloc(allocOk) ==
    /\ tx.stage = "begin"
    /\ IF allocOk
       THEN /\ tx' = [tx EXCEPT !.stage = "node",
                                !.node = [identName |-> tx.ident,
                                          tree |-> Len(index[tx.pool]) + 1]]
            /\ UNCHANGED <<index, last>>
       ELSE /\ tx' = NoTx
            /\ index' = Recover(index, tx)
            /\ last' = CallOut("createSDI", tx.ident, tx.ns, tx.pool, "allocfail")
    /\ UNCHANGED <<listExists, identList, safeShutdown, file, vvars, tvars,
                   cleanMarked, priorSafe, prevExit, prevMarked, kvmap,
                   changes, uow>>

\* lines 166-169: the node's next pointer takes the current head (it stays
\* null when the list is empty)
TxSetNext ==
    /\ tx.stage = "node"
    /\ tx' = [tx EXCEPT !.stage = "next", !.next = index[tx.pool]]
    /\ UNCHANGED <<pvars, vvars, tvars, hvars, kvmap, changes, uow>>

\* lines 167 and 170: the head pointer takes the node
TxSetHead ==
    /\ tx.stage = "next"
    /\ index' = [index EXCEPT ![tx.pool] = LinkIndex(tx.next, tx.node)]
    /\ tx' = [tx EXCEPT !.stage = "linked"]
    /\ UNCHANGED <<listExists, identList, safeShutdown, file, vvars, tvars,
                   hvars, kvmap, changes, uow>>

\* line 172: the transaction commits
TxCommit ==
    /\ tx.stage = "linked"
    /\ tx' = [tx EXCEPT !.stage = "kv"]
    /\ UNCHANGED <<pvars, vvars, tvars, hvars, kvmap, changes, uow>>

\* lines 173-178: the placeholder entry is inserted and the status returned
SdiInsertKV(out) ==
    /\ tx.stage = "kv"
    /\ out \in {"kvfail", "ok"}
    /\ IF out = "ok"
       THEN /\ Len(identList) < MaxCat
            /\ identList' = insertKV(identList, tx.ident, NoNs)
       ELSE UNCHANGED identList
    /\ tx' = NoTx
    /\ last' = CallOut("createSDI", tx.ident, tx.ns, tx.pool, out)
    /\ UNCHANGED <<listExists, safeShutdown, file, index, vvars, tvars,
                   cleanMarked, priorSafe, prevExit, prevMarked, kvmap,
                   changes, uow>>

TxStart == tx = NoTx /\ Start

TxCreateRecordStore == tx = NoTx /\ IdxCreateRecordStore

TxBeginCall == \E ident \in Idents, ns \in Namespaces : TxBegin(ident, ns)

TxAllocStep == \E allocOk \in BOOLEAN : TxAlloc(allocOk)

SdiInsertKVStep == \E out \in {"kvfail", "ok"} : SdiInsertKV(out)

\* the process dies, possibly inside the transaction
TxCrash ==
    /\ Crash
    /\ tx' = NoTx
    /\ last' = IF tx.stage \in InTx
               THEN CallOut("createSDI", tx.ident, tx.ns, tx.pool,
                            IF tx.stage = "linked" THEN "crash-linked"
                            ELSE "crash")
               ELSE NoCall
    /\ UNCHANGED <<tvars, kvmap, changes, uow>>

NextTx ==
    \/ TxStart
    \/ TxCreateRecordStore
    \/ TxBeginCall
    \/ TxAllocStep
    \/ TxSetNext
    \/ TxSetHead
    \/ TxCommit
    \/ SdiInsertKVStep
    \/ TxCrash

SpecTx == InitUnsafe /\ [][NextTx]_vars

\* ---- change objects (InsertChange, RemoveChange) -------------------------
\* InsertChange(mapper, loc): records the location of the record inserted
InsertChange(loc) ==
    [kind |-> "insert", loc |-> loc, data |-> 0, cached |-> FALSE,
     state |-> "pending", commits |-> 0, rollbacks |-> 0]

\* RemoveChange(pop, data): keeps a copy of the payload of the record removed
RemoveChange(loc, data) ==
    [kind |-> "remove", loc |-> loc, data |-> data, cached |-> TRUE,
     state |-> "pending", commits |-> 0, rollbacks |-> 0]

\* an InsertChange::rollback that empties the map
InsertRollbackClears(map, loc) == [l \in Locs |-> 0]

\* InsertChange::rollback: the record at the location is removed; nothing
\* happens when it is no longer there
InsertRollback(map, loc) == [map EXCEPT ![loc] = 0]

\* a RemoveChange::rollback that re-inserts nothing
RemoveRollbackNothing(map, loc, data) == map

\* RemoveChange::rollback: the cached payload is inserted back
RemoveRollback(map, loc, data) == [map EXCEPT ![loc] = data]

\* rollback() of change object c
rollback(map, c) ==
    IF c.kind = "insert" THEN InsertRollback(map, c.loc)
    ELSE RemoveRollback(map, c.loc, c.data)

\* commit() of change object c leaves the map alone; RemoveChange::commit
\* releases the cached payload
commit(map, c) == map

\* a record is inserted into the mapper's map and the change registered
InsertRecord(loc, data) ==
    /\ uow.phase = "open"
    /\ Len(changes) < MaxChanges
    /\ kvmap[loc] = 0
    /\ kvmap' = [kvmap EXCEPT ![loc] = data]
    /\ changes' = Append(changes, InsertChange(loc))
    /\ UNCHANGED <<pvars, vvars, tvars, hvars, tx, uow>>

\* a record is removed from the mapper's map and the change registered
RemoveRecord(loc) ==
    /\ uow.phase = "open"
    /\ Len(changes) < MaxChanges
    /\ kvmap[loc] # 0
    /\ kvmap' = [kvmap EXCEPT ![loc] = 0]
    /\ changes' = Append(changes, RemoveChange(loc, kvmap[loc]))
    /\ UNCHANGED <<pvars, vvars, tvars, hvars, tx, uow>>

\* another operation removes a record while this unit of work is open
ConcurrentRemove(loc) ==
    /\ kvmap[loc] # 0
    /\ kvmap' = [kvmap EXCEPT ![loc] = 0]
    /\ UNCHANGED <<pvars, vvars, tvars, hvars, tx, changes, uow>>

\* the change list is left as it is when the unit of work ends
ChangesKept(chs) == chs

\* the change objects are destroyed when the unit of work ends
ChangesCleared(chs) == <<>>

\* the enclosing transaction commits: commit() on every change object
BeginCommit ==
    /\ uow.phase = "open"
    /\ changes # <<>>
    /\ \A k \in 1..Len(changes) : changes[k].commits + changes[k].rollbacks < 2
    /\ uow' = [phase |-> "committing", at |-> 1]
    /\ UNCHANGED <<pvars, vvars, tvars, hvars, tx, kvmap, changes>>

CommitNext ==
    /\ uow.phase = "committing"
    /\ uow.at <= Len(changes)
    /\ kvmap' = commit(kvmap, changes[uow.at])
    /\ changes' = [changes EXCEPT ![uow.at].state = "committed",
                                  ![uow.at].commits = @ + 1,
                                  ![uow.at].cached = FALSE]
    /\ uow' = [uow EXCEPT !.at = @ + 1]
    /\ UNCHANGED <<pvars, vvars, tvars, hvars, tx>>

\* the enclosing transaction aborts: rollback() on every change object, the
\* most recent first
BeginAbort ==
    /\ uow.phase = "open"
    /\ changes # <<>>
    /\ \A k \in 1..Len(changes) : changes[k].commits + changes[k].rollbacks < 2
    /\ uow' = [phase |-> "aborting", at |-> Len(changes)]
    /\ UNCHANGED <<pvars, vvars, tvars, hvars, tx, kvmap, changes>>

RollbackNext ==
    /\ uow.phase = "aborting"
    /\ uow.at >= 1
    /\ kvmap' = rollback(kvmap, changes[uow.at])
    /\ changes' = [changes EXCEPT ![uow.at].state = "rolledback",
                                  ![uow.at].rollbacks = @ + 1]
    /\ uow' = [uow EXCEPT !.at = @ - 1]
    /\ UNCHANGED <<pvars, vvars, tvars, hvars, tx>>

\* the unit of work ends and its change objects go
Finalize ==
    /\ \/ uow.phase = "committing" /\ uow.at > Len(changes)
       \/ uow.phase = "aborting" /\ uow.at < 1
    /\ changes' = ChangesCleared(changes)
    /\ uow' = OpenUow
    /\ UNCHANGED <<pvars, vvars, tvars, hvars, tx, kvmap>>

InsertRecordStep == \E loc \in Locs, data \in Payloads : InsertRecord(loc, data)

RemoveRecordStep == \E loc \in Locs : RemoveRecord(loc)

ConcurrentRemoveStep == \E loc \in Locs : ConcurrentRemove(loc)

NextChange ==
    \/ InsertRecordStep
    \/ RemoveRecordStep
    \/ ConcurrentRemoveStep
    \/ BeginCommit
    \/ CommitNext
    \/ BeginAbort
    \/ RollbackNext
    \/ Finalize

SpecChange == InitUnsafe /\ [][NextChange]_vars

\* ---- properties -----------------------------------------------------------
\* namespaces the catalog holds under ident
EntriesOf(list, ident) ==
    {list[k].value : k \in {j \in 1..Len(list) : list[j].key = ident}}

\* the pool a getRecordStore of ident would put the record store on
GetResolves(ident) ==
    IF poolHandler[ident] # 0 THEN poolHandler[ident] ELSE file[ident]

\* C1: every start sets _needCheck to true when the marker it read was left
\* unsafe and to false when it was safe, and the marker it reads is safe
\* exactly when the previous instance had marked a clean shutdown.
C1_StartLatchesMarker ==
    engine = "up" =>
        /\ needCheck = ~priorSafe
        /\ prevExit # "fresh" => (priorSafe = prevMarked)

C1_Witness ==
    /\ engine = "up"
    /\ prevExit = "teardown"
    /\ prevMarked
    /\ ~needCheck

\* C2: between the end of the constructor and the next cleanShutdown the
\* marker is unsafe, so an instance started after a crash that came before
\* any clean-shutdown mark has _needCheck set.
C2_MarkerUnsafeWhileRunning ==
    /\ (engine = "up" /\ ~cleanMarked) => ~safeShutdown
    /\ (engine = "up" /\ prevExit = "crash" /\ ~prevMarked) => needCheck

C2_Witness ==
    /\ engine = "up"
    /\ prevExit = "crash"
    /\ ~prevMarked
    /\ needCheck
    /\ ~safeShutdown
    /\ \E i \in Idents : file[i] # 0 /\ HasKey(identList, i)

\* C3: a createRecordStore that fails on an ident registered nowhere leaves
\* the ident in neither the pool-handle map nor the catalog.
C3_FailedCreateRegistersNothing ==
    (pc = "idle" /\ last.op = "create" /\ ~last.ok /\ last.fresh) =>
        /\ poolHandler[last.ident] = 0
        /\ ~HasKey(identList, last.ident)

\* C4: after a successful createRecordStore(ns, ident) a getRecordStore of
\* ident resolves to the pool that create created or opened, and the catalog
\* holds ident -> ns.
C4_GetResolvesCreatedPool ==
    (pc = "idle" /\ last.op = "create" /\ last.ok) =>
        /\ GetResolves(last.ident) = last.res
        /\ last.ns \in EntriesOf(identList, last.ident)

\* C7: once the destructor has run, no handle the instance opened is left
\* open (every handle was in the map, where drop or teardown closes it once).
C7_NoHandleLeftOpen ==
    (engine = "down" /\ prevExit = "teardown") => unregistered = 0

\* C8: the file of an ident is only ever removed when the catalog no longer
\* holds the ident, so no step of dropIdent, and no crash after it, leaves a
\* catalog entry whose file the drop has deleted.
C8_CatalogGoesBeforeFile ==
    [][\A i \in Idents :
          (file[i] # 0 /\ file'[i] = 0) =>
              (~HasKey(identList, i) /\ ~HasKey(identList', i))]_vars

C8_Witness ==
    /\ pc = "remove"
    /\ file[dropArg] # 0
    /\ poolHandler[dropArg] = 0
    /\ ~HasKey(identList, dropArg)

\* C9: dropIdent returns OK with the ident gone from the catalog and its
\* file removed, also when the close threw and the handle stayed in the map;
\* a successful createRecordStore of an ident the catalog does not hold
\* leaves exactly the new namespace under it.
C9_DropClearsCatalog ==
    [][\A i \in Idents :
          /\ (DropRemove /\ dropArg = i) =>
                 (last'.ok /\ ~HasKey(identList', i) /\ file'[i] = 0)
          /\ \A ns \in Namespaces :
                 (~HasKey(identList, i) /\ createRecordStore(ns, i, "ok")) =>
                     EntriesOf(identList', i) = {ns}]_vars

C9_Witness ==
    /\ pc = "idle"
    /\ last.op = "create"
    /\ last.ok
    /\ poolHandler[last.ident] # 0
    /\ poolHandler[last.ident] # last.res
    /\ EntriesOf(identList, last.ident) = {last.ns}

\* ident has a pool handle and a catalog entry
Both(ident) == poolHandler[ident] # 0 /\ HasKey(identList, ident)

Matching(list, name) ==
    {list[k].tree : k \in {j \in 1..Len(list) : list[j].identName = name}}

Newest(trees) == CHOOSE t \in trees : \A u \in trees : u <= t
Oldest(trees) == CHOOSE t \in trees : \A u \in trees : t <= u

C6_MapAccessSerialized ==
    /\ \A t, u \in Threads :
          (t # u /\ tpc[t] = "body") => tpc[u] # "body"
    /\ \A t \in Threads : InBody(t, "get") => mutex = t

\* C11: while the transaction of createSortedDataInterface is open the
\* owning pool's list is the list before the call or that list with the new
\* node at its head; when the transaction ends by a failed allocation or a
\* crash the list is exactly the list before the call; once it has committed
\* the new node is the head and the rest is the list before the call.
C11_LinkIsAllOrNothing ==
    [][/\ tx.stage \in InTx =>
            /\ index[tx.pool] \in {tx.before, LinkIndex(tx.before, tx.node)}
            /\ tx'.stage = "none" => index'[tx.pool] = tx.before
            /\ \A p \in PoolNums \ {tx.pool} : index'[p] = index[p]
       /\ tx.stage = "kv" =>
            /\ index[tx.pool] = LinkIndex(tx.before, tx.node)
            /\ tx.node.identName = tx.ident]_vars

C11_Witness ==
    /\ engine = "down"
    /\ last.op = "createSDI"
    /\ last.out = "crash-linked"
    /\ Len(index[last.res]) = 1

\* C12: within one collection pool's index-catalog list no two nodes carry
\* the same ident name.
C12_NamesDistinct ==
    \A p \in PoolNums :
        \A j, k \in 1..Len(index[p]) :
            j # k => index[p][j].identName # index[p][k].identName

\* C13: a getSortedDataInterface whose owning collection resolves and whose
\* list holds no node of the name returns a not-found error to its caller:
\* the process is still up and the call ended as "notfound".
C13_MissingIsNotFound ==
    (pc = "idle" /\ last.op = "getSDI" /\ last.out # "out_of_range") =>
        /\ engine = "up"
        /\ Matching(index[RsPool(last.ns)], last.ident) = {} =>
               last.out = "notfound"

\* change object k is being rolled back / committed by this step
RolledBackNow(k) ==
    /\ k <= Len(changes')
    /\ changes'[k].rollbacks = changes[k].rollbacks + 1

CommittedNow(k) ==
    /\ k <= Len(changes')
    /\ changes'[k].commits = changes[k].commits + 1

\* C14: a change object is Pending with neither call made, Committed after
\* exactly one commit and no rollback, RolledBack after exactly one rollback
\* and no commit; once finalized it stays as it is; and when its unit of
\* work ends every change object has had exactly one of the two calls.
C14_ExactlyOneFinalization ==
    [][\A k \in 1..Len(changes) :
          LET c == changes[k] IN
          /\ c.commits + c.rollbacks <= 1
          /\ c.state = "pending" <=> c.commits + c.rollbacks = 0
          /\ c.state = "committed" <=> c.commits = 1
          /\ c.state = "rolledback" <=> c.rollbacks = 1
          /\ (c.state # "pending" /\ k <= Len(changes')) => changes'[k] = c
          /\ (uow.phase # "open" /\ uow'.phase = "open") =>
                 c.commits + c.rollbacks = 1]_vars

C14_Witness ==
    /\ uow.phase = "aborting"
    /\ uow.at = 0
    /\ Len(changes) = 2
    /\ changes[1].kind = "insert"
    /\ changes[2].kind = "remove"
    /\ \A k \in 1..2 : changes[k].state = "rolledback"

\* C15: the rollback of a RemoveChange made from payload P leaves the map
\* holding P at the record's location; its commit releases the cached copy
\* and leaves the map as it was.
C15_RemoveChangeRestores ==
    [][\A k \in 1..Len(changes) :
          changes[k].kind = "remove" =>
              /\ RolledBackNow(k) => kvmap'[changes[k].loc] = changes[k].data
              /\ CommittedNow(k) => /\ ~changes'[k].cached
                                     /\ kvmap' = kvmap]_vars

C15_Witness ==
    /\ uow.phase = "aborting"
    /\ Len(changes) = 1
    /\ changes[1].kind = "remove"
    /\ changes[1].state = "rolledback"
    /\ kvmap[changes[1].loc] = changes[1].data
    /\ changes[1].data = 2

\* C16: the rollback of an InsertChange leaves no record at its location and
\* every other record as it was, also when the record had already been
\* removed (then the map does not change at all); its commit leaves the map
\* as it was.
C16_InsertChangeRollback ==
    [][\A k \in 1..Len(changes) :
          changes[k].kind = "insert" =>
              /\ RolledBackNow(k) =>
                     /\ kvmap'[changes[k].loc] = 0
                     /\ \A l \in Locs \ {changes[k].loc} : kvmap'[l] = kvmap[l]
                     /\ changes'[k].state = "rolledback"
                     /\ kvmap[changes[k].loc] = 0 => kvmap' = kvmap
              /\ CommittedNow(k) => kvmap' = kvmap]_vars

C16_Witness ==
    /\ uow.phase = "aborting"
    /\ Len(changes) = 1
    /\ changes[1].kind = "insert"
    /\ changes[1].state = "rolledback"
    /\ kvmap[changes[1].loc] = 0
    /\ \E l \in Locs : kvmap[l] # 0

\* C17: a step that starts or ends an engine instance leaves the catalog as
\* it is, so the catalog after a restart holds the entries, in the order and
\* with the namespaces, it held before.
C17_RestartKeepsCatalog ==
    [][engine' # engine => identList' = identList]_vars

C17_Witness ==
    /\ engine = "up"
    /\ prevExit = "teardown"
    /\ Len(identList) = 2
    /\ identList[1].key # identList[2].key
    /\ \A i \in Idents : poolHandler[i] = 0

\* C18 as stated: an instance started after another one has _needCheck
\* false exactly when that one was torn down to completion.
C18_TeardownMarksSafe ==
    (engine = "up" /\ prevExit # "fresh") =>
        (needCheck <=> prevExit # "teardown")

\* C18 amended: the marker left behind by an instance is safe exactly when
\* the instance had made the clean-shutdown mark, whether it then ended by
\* teardown or by a crash, and the next instance has _needCheck false
\* exactly in that case.
C18_CleanMarkDecides ==
    /\ (engine = "down" /\ prevExit # "fresh") => (safeShutdown <=> prevMarked)
    /\ (engine = "up" /\ prevExit # "fresh") => (needCheck <=> ~prevMarked)

C18_Witness ==
    /\ engine = "up"
    /\ prevExit = "teardown"
    /\ ~prevMarked
    /\ needCheck
    /\ \E i \in Idents : HasKey(identList, i)

\* C19: a getRecordStore of an ident that has a handle in the map leaves
\* that handle in place and opens nothing; one of an ident without a handle
\* opens the pool of the ident's file and stores the handle under the ident;
\* the record store returned is on the handle the map then holds; and the
\* handle of an ident stays the same until the ident is dropped or the
\* instance ends.
C19_GetReusesHandle ==
    [][\A i \in Idents :
          /\ \A ns \in Namespaces, out \in GetOuts :
                (pc = "idle" /\ getRecordStore(ns, i, out)) =>
                    /\ poolHandler[i] # 0 =>
                           /\ poolHandler'[i] = poolHandler[i]
                           /\ unregistered' = unregistered
                    /\ (poolHandler[i] = 0 /\ out # "openfail") =>
                           /\ file[i] # 0
                           /\ poolHandler'[i] = file[i]
          /\ (last'.op = "get" /\ last'.ok /\ last'.ident = i /\ last' # last) =>
                 last'.res = poolHandler'[i]
          /\ ( /\ poolHandler[i] # 0
               /\ engine' = "up"
               /\ ~(pc = "close" /\ dropArg = i) ) =>
                 poolHandler'[i] = poolHandler[i]]_vars

C19_Witness ==
    /\ pc = "idle"
    /\ last.op = "get"
    /\ last.ok
    /\ file[last.ident] # 0
    /\ poolHandler[last.ident] # file[last.ident]
    /\ last.res = poolHandler[last.ident]

\* the catalog without the entries of ident
Others(list, ident) == SelectSeq(list, LAMBDA e : e.key # ident)

\* this step is one of the three steps of dropIdent(ident)
DropStepOf(ident) ==
    /\ engine' = "up"
    /\ \/ pc = "idle" /\ pc' = "close" /\ dropArg' = ident
       \/ pc = "close" /\ pc' = "remove" /\ dropArg = ident
       \/ pc = "remove" /\ pc' = "idle" /\ dropArg = ident

\* C20: every step of dropIdent(ident) leaves the catalog entries, the pool
\* handle and the file of every other ident as they were, and leaves the
\* index-catalog list of every pool that still exists as it was, a node
\* named ident included.
C20_DropTouchesOnlyItsIdent ==
    [][\A i \in Idents :
          DropStepOf(i) =>
              /\ Others(identList', i) = Others(identList, i)
              /\ \A j \in Idents \ {i} :
                     /\ poolHandler'[j] = poolHandler[j]
                     /\ file'[j] = file[j]
              /\ \A p \in PoolNums :
                     p \in InUse(file', poolHandler') => index'[p] = index[p]]_vars

C20_Witness ==
    /\ pc = "idle"
    /\ last.op = "drop"
    /\ ~HasKey(identList, last.ident)
    /\ file[last.ident] = 0
    /\ \E j \in Idents \ {last.ident} :
          /\ poolHandler[j] # 0
          /\ HasKey(identList, j)
          /\ \E k \in 1..Len(index[poolHandler[j]]) :
                 index[poolHandler[j]][k].identName = last.ident

====
